---- MODULE Spec2Model ----
(***************************************************************************)
(* Streaming text-to-speech pipeline of examples/say-server/server.py:     *)
(* the queue registry (tts_queues), the tool handlers create_tts_queue,    *)
(* add_tts_text, end_tts_queue, cancel_tts_queue and poll_tts_audio, the   *)
(* background task _run_tts_queue with _process_tts_chunk, and the         *)
(* StreamingTextChunker it feeds.                                          *)
(*                                                                         *)
(* All handlers are synchronous functions run on the asyncio event loop,   *)
(* and the worker task runs on the same loop, so each handler and each     *)
(* run of the worker between two suspension points is one atomic action.   *)
(* text_queue.get() suspends only on an empty queue; run_in_executor       *)
(* always suspends; the uncontended state.lock does not suspend.           *)
(***************************************************************************)
EXTENDS Integers, Sequences, FiniteSets, TLC

(* ---------------------------------------------------------------------- *)
(* Bounds of the model                                                     *)
(* ---------------------------------------------------------------------- *)

\* StreamingTextChunker(max_tokens, min_tokens): the constructor's parameters
\* (50 and 15 by default), scaled down so that short texts reach both
\* thresholds.
MaxTokens == 3

MinTokens == 2

\* add_tts_text calls accepted over the whole run (text_queue is unbounded).
MaxPush == 3

\* The same, in the runs checked for what eventually happens.
MaxPushLive == 2

\* The same, in the runs that create two queues.
MaxPushTwo == 1

\* A chunker driven on its own: the characters added over the whole run, and
\* the characters of one add_text call.
MaxInputLen == 6

MaxFragLen == 2

\* The queue ids uuid4 can hand out in a run, each at most once.
QueueIds == {"q1", "q2"}

\* The text fragments a caller pushes, over the characters "a" (a letter),
\* "." (a sentence-ending mark) and " " (a blank).
Fragments == { <<"a", ".", " ">>, <<"a", ".", "a", "a", "a">>, <<" ", "a">> }

\* The characters of the texts.
Chars == {"a", ".", " "}

\* The texts one add_text call of the chunker driven on its own can pass.
SegFragments == UNION { [1..n -> Chars] : n \in 1..MaxFragLen }

\* The fragments of the runs that push whole sentences: sentences of one to
\* five tokens, the shortest ones followed by a blank.
SentenceFragments ==
    { <<".", " ">>, <<"a", ".", " ">>, <<"a", ".">>, <<"a", "a", ".">>,
      <<"a", "a", "a", ".">>, <<"a", "a", "a", "a", ".">> }

\* The EOF marker end_tts_queue and cancel_tts_queue put on text_queue (None).
EOF == <<"EOF">>

(* ---------------------------------------------------------------------- *)
(* Text and tokenizer                                                      *)
(* ---------------------------------------------------------------------- *)

RECURSIVE LStrip(_)
LStrip(t) == IF t # <<>> /\ Head(t) = " " THEN LStrip(Tail(t)) ELSE t

RECURSIVE RStrip(_)
RStrip(t) ==
    IF t # <<>> /\ t[Len(t)] = " " THEN RStrip(SubSeq(t, 1, Len(t) - 1)) ELSE t

\* str.strip()
Strip(t) == RStrip(LStrip(t))

\* self.tokenizer(text).tokens[0].tolist(): the SentencePiece pieces of a
\* text. Every non-blank character is one piece; a piece remembers whether
\* blanks precede it (the piece's word-start prefix), a run of blanks counting
\* as one.
RECURSIVE TokenizeFrom(_, _)
TokenizeFrom(t, sp) ==
    IF t = <<>> THEN <<>>
    ELSE IF Head(t) = " " THEN TokenizeFrom(Tail(t), TRUE)
    ELSE <<[c |-> Head(t), sp |-> sp]>> \o TokenizeFrom(Tail(t), FALSE)

Tokenize(t) == TokenizeFrom(t, FALSE)

\* self.tokenizer.sp.decode(tokens): the pieces joined, the word-start prefix
\* read as a blank,
\* and the blank before the first piece dropped.
RECURSIVE DecodeRaw(_)
DecodeRaw(toks) ==
    IF toks = <<>> THEN <<>>
    ELSE (IF Head(toks).sp THEN <<" ">> ELSE <<>>) \o <<Head(toks).c>>
         \o DecodeRaw(Tail(toks))

Decode(toks) == LStrip(DecodeRaw(toks))

\* token in self.eos_tokens
IsEos(tok) == tok.c = "."

\* As EndsWithSentenceBoundary, but no token sequence counts as ended.
EndsWithSentenceBoundaryNever(toks) == FALSE

\* StreamingTextChunker._ends_with_sentence_boundary
EndsWithSentenceBoundary(toks) ==
    IF toks = <<>> THEN FALSE ELSE IsEos(toks[Len(toks)])

(* ---------------------------------------------------------------------- *)
(* StreamingTextChunker                                                    *)
(* ---------------------------------------------------------------------- *)

\* _find_best_split, first loop: the sentence boundaries (0-based positions
\* AFTER the punctuation) found while walking the tokens from position i.
RECURSIVE BoundariesFrom(_, _, _)
BoundariesFrom(toks, i, prev_was_eos) ==
    IF i = Len(toks) THEN <<>>
    ELSE IF IsEos(toks[i + 1]) THEN BoundariesFrom(toks, i + 1, TRUE)
    ELSE IF prev_was_eos THEN <<i>> \o BoundariesFrom(toks, i + 1, FALSE)
    ELSE BoundariesFrom(toks, i + 1, FALSE)

\* _find_best_split: the boundaries list, the end of the tokens included
\* when the last token is punctuation.
Boundaries(toks) ==
    BoundariesFrom(toks, 0, FALSE)
        \o (IF toks # <<>> /\ IsEos(toks[Len(toks)]) THEN <<Len(toks)>> ELSE <<>>)

\* As PickBoundary, but the first boundary is taken.
PickBoundaryFirst(boundaries, best_boundary) ==
    IF boundaries = <<>> THEN best_boundary ELSE Head(boundaries)

\* _find_best_split, second loop over the boundaries.
RECURSIVE PickBoundary(_, _)
PickBoundary(boundaries, best_boundary) ==
    IF boundaries = <<>> THEN best_boundary
    ELSE IF Head(boundaries) <= MaxTokens
         THEN PickBoundary(Tail(boundaries), Head(boundaries))
    ELSE IF best_boundary = 0 THEN Head(boundaries)
    ELSE best_boundary

\* As FindBestSplit, but the split is always at the end of the tokens.
FindBestSplitAll(toks, force_emit) == Len(toks)

\* StreamingTextChunker._find_best_split
FindBestSplit(toks, force_emit) ==
    IF Boundaries(toks) = <<>>
    THEN IF Len(toks) >= MaxTokens THEN MaxTokens
         ELSE IF force_emit THEN Len(toks) ELSE 0
    ELSE PickBoundary(Boundaries(toks), 0)

\* As EnoughTokens, but one token is enough.
EnoughTokensOne(num_tokens) == num_tokens >= 1

\* As EnoughTokens, but any number of tokens is enough.
EnoughTokensAlways(num_tokens) == TRUE

\* num_tokens >= self.min_tokens, the test _try_extract_chunk makes twice
\* (negated the first time).
EnoughTokens(num_tokens) == num_tokens >= MinTokens

NoChunk(buffer) == [found |-> FALSE, chunk |-> <<>>, buffer |-> buffer]

\* As TryExtractChunk, but a forced split leaves the buffer as it was.
TryExtractChunkKeep(buffer, force_emit) ==
    LET text == Strip(buffer)
        tokens == Tokenize(text)
        num_tokens == Len(tokens)
        split_idx == FindBestSplit(tokens, force_emit)
    IN  IF text = <<>> THEN NoChunk(buffer)
        ELSE IF ~EnoughTokens(num_tokens) /\ ~force_emit THEN NoChunk(buffer)
        ELSE IF num_tokens < MaxTokens /\ ~force_emit
             THEN IF EnoughTokens(num_tokens) /\ EndsWithSentenceBoundary(tokens)
                  THEN [found |-> TRUE, chunk |-> text, buffer |-> <<>>]
                  ELSE NoChunk(buffer)
        ELSE IF split_idx = 0
             THEN IF force_emit
                  THEN [found |-> TRUE, chunk |-> text, buffer |-> <<>>]
                  ELSE NoChunk(buffer)
        ELSE [found |-> TRUE,
              chunk |-> Strip(Decode(SubSeq(tokens, 1, split_idx))),
              buffer |-> IF force_emit THEN buffer
                         ELSE Decode(SubSeq(tokens, split_idx + 1, num_tokens))]

\* StreamingTextChunker._try_extract_chunk: found = FALSE is the None result.
TryExtractChunk(buffer, force_emit) ==
    LET text == Strip(buffer)
        tokens == Tokenize(text)
        num_tokens == Len(tokens)
        split_idx == FindBestSplit(tokens, force_emit)
    IN  IF text = <<>> THEN NoChunk(buffer)
        ELSE IF ~EnoughTokens(num_tokens) /\ ~force_emit THEN NoChunk(buffer)
        ELSE IF num_tokens < MaxTokens /\ ~force_emit
             THEN IF EnoughTokens(num_tokens) /\ EndsWithSentenceBoundary(tokens)
                  THEN [found |-> TRUE, chunk |-> text, buffer |-> <<>>]
                  ELSE NoChunk(buffer)
        ELSE IF split_idx = 0
             THEN IF force_emit
                  THEN [found |-> TRUE, chunk |-> text, buffer |-> <<>>]
                  ELSE NoChunk(buffer)
        ELSE [found |-> TRUE,
              chunk |-> Strip(Decode(SubSeq(tokens, 1, split_idx))),
              buffer |-> Decode(SubSeq(tokens, split_idx + 1, num_tokens))]

\* As ExtractLoop, but one chunk at most is extracted.
ExtractOnce(buffer, force_emit, chunks) ==
    LET r == TryExtractChunk(buffer, force_emit /\ chunks = <<>>)
    IN  IF ~r.found THEN [chunks |-> chunks, buffer |-> r.buffer]
        ELSE [chunks |-> Append(chunks, r.chunk), buffer |-> r.buffer]

\* StreamingTextChunker._extract_ready_chunks: the while loop, chunks being
\* the list built so far.
RECURSIVE ExtractLoop(_, _, _)
ExtractLoop(buffer, force_emit, chunks) ==
    LET r == TryExtractChunk(buffer, force_emit /\ chunks = <<>>)
    IN  IF ~r.found THEN [chunks |-> chunks, buffer |-> r.buffer]
        ELSE ExtractLoop(r.buffer, force_emit, Append(chunks, r.chunk))

ExtractReadyChunks(buffer, force_emit) == ExtractLoop(buffer, force_emit, <<>>)

\* StreamingTextChunker.add_text
AddText(buffer, text) == ExtractReadyChunks(buffer \o text, FALSE)

\* StreamingTextChunker.flush
Flush(buffer) ==
    IF Strip(buffer) = <<>> THEN [chunks |-> <<>>, buffer |-> buffer]
    ELSE LET r == ExtractReadyChunks(buffer, TRUE)
         IN  IF Strip(r.buffer) # <<>>
             THEN [chunks |-> Append(r.chunks, Strip(r.buffer)), buffer |-> <<>>]
             ELSE r

(* ---------------------------------------------------------------------- *)
(* State                                                                   *)
(* ---------------------------------------------------------------------- *)

VARIABLES
    tts_model,         \* TRUE once load_tts_model has set the global model
    tts_queues,        \* the registry: the ids that are keys of the dict
    allocated,         \* the ids create_tts_queue has generated so far
    uuid_pool,         \* the ids uuid4 can still generate in this run
    status,            \* TTSQueueState.status of each id's record
    end_signaled,      \* TTSQueueState.end_signaled
    text_queue,        \* TTSQueueState.text_queue: fragments and EOF, FIFO
    audio_chunks,      \* TTSQueueState.audio_chunks
    chunks_delivered,  \* TTSQueueState.chunks_delivered
    task,              \* TTSQueueState.task: the worker's position and locals
    cleanup,           \* the ids for which poll scheduled a cleanup() task
    last,              \* the response of the latest tool call
    pushed,            \* history: the fragments add_tts_text accepted
    delivered,         \* history: the chunks the polls returned, in order
    cancelled,         \* history: the ids cancel_tts_queue removed
    push_budget,       \* the add_tts_text calls this run accepts (fixed)
    chunker            \* a StreamingTextChunker driven on its own

vars == <<tts_model, tts_queues, allocated, uuid_pool, status, end_signaled, text_queue,
          audio_chunks, chunks_delivered, task, cleanup, last, pushed,
          delivered, cancelled, push_budget, chunker>>

\* What the handlers and the workers of the queues leave alone.
aside == <<push_budget, chunker>>

\* The record's fields, as a group.
record_vars == <<status, end_signaled, text_queue, audio_chunks,
                 chunks_delivered, task>>

\* The worker of a queue: where its coroutine stands ("new": created, not
\* yet run; "get": suspended in text_queue.get(); "synth": suspended in
\* run_in_executor; "done": returned; "cancelling": task.cancel() was called
\* and CancelledError is to be thrown into it; "cancelled"), and its locals.
NewTask ==
    [pc |-> "new", buffer |-> <<>>, chunk_index |-> 0, char_offset |-> 0,
     pending |-> <<>>, at_eof |-> FALSE]

\* A tool's response. chunks, done and status are those of a poll response.
Response(op, id, result) ==
    [op |-> op, id |-> id, result |-> result, chunks |-> <<>>, done |-> FALSE,
     status |-> "none"]

\* StreamingTextChunker.__init__: an empty buffer. input, emitted, before
\* and returned are history: the text added so far, the segments emitted so
\* far, the buffer the latest call worked on, and what that call returned.
NewChunker ==
    [buffer |-> <<>>, flushed |-> FALSE, input |-> <<>>, emitted |-> <<>>,
     before |-> <<>>, returned |-> <<>>, call |-> "none"]

\* The state at startup, less the ids the run will see.
Start ==
    /\ tts_model = FALSE
    /\ tts_queues = {}
    /\ allocated = {}
    /\ status = [q \in QueueIds |-> "active"]
    /\ end_signaled = [q \in QueueIds |-> FALSE]
    /\ text_queue = [q \in QueueIds |-> <<>>]
    /\ audio_chunks = [q \in QueueIds |-> <<>>]
    /\ chunks_delivered = [q \in QueueIds |-> 0]
    /\ task = [q \in QueueIds |-> NewTask]
    /\ cleanup = {}
    /\ last = Response("none", "none", "none")
    /\ pushed = [q \in QueueIds |-> <<>>]
    /\ delivered = [q \in QueueIds |-> <<>>]
    /\ cancelled = {}
    /\ chunker = NewChunker

\* A run in which one queue is created.
Init == Start /\ uuid_pool = {"q1"} /\ push_budget = MaxPush

\* A run in which one queue is created, with the budget of the runs that
\* are checked for what eventually happens.
InitLive == Start /\ uuid_pool = {"q1"} /\ push_budget = MaxPushLive

\* A run in which two queues are created.
InitTwo == Start /\ uuid_pool = QueueIds /\ push_budget = MaxPushTwo

(* ---------------------------------------------------------------------- *)
(* Tool handlers                                                           *)
(* ---------------------------------------------------------------------- *)

\* load_tts_model, run once at startup.
load_tts_model ==
    /\ ~tts_model
    /\ tts_model' = TRUE
    /\ UNCHANGED <<tts_queues, allocated, uuid_pool, aside, record_vars, cleanup, last, pushed,
                   delivered, cancelled>>

\* As BackendReady, but the model is not looked at.
BackendReadyAlways(model) == TRUE

\* create_tts_queue: tts_model is not None.
BackendReady(model) == model

\* create_tts_queue: queue_id is a fresh uuid.
create_tts_queue(queue_id) ==
    /\ queue_id \in uuid_pool
    /\ IF ~BackendReady(tts_model)
       THEN /\ last' = Response("create", "none", "model_not_loaded")
            /\ UNCHANGED <<tts_queues, allocated, uuid_pool>>
       ELSE /\ tts_queues' = tts_queues \cup {queue_id}
            /\ allocated' = allocated \cup {queue_id}
            /\ uuid_pool' = uuid_pool \ {queue_id}
            /\ last' = Response("create", queue_id, "created")
    /\ UNCHANGED <<tts_model, aside, record_vars, cleanup, pushed, delivered,
                   cancelled>>

\* As Lookup, but a record is found for every id.
LookupAny(registry, queue_id) == TRUE

\* tts_queues.get(queue_id): whether a record is found.
Lookup(registry, queue_id) == queue_id \in registry

\* asyncio.Queue(): maxsize, 0 meaning no limit.
MaxSize == 0

\* As QueueFull, but the queue holds one item at most.
QueueFullAtOne(queue) == Len(queue) >= 1

\* asyncio.Queue.full(), on which put_nowait raises QueueFull.
QueueFull(queue) == MaxSize > 0 /\ Len(queue) >= MaxSize

\* As PutNowait, but the EOF marker is put in place of the item.
PutMarker(queue, item) == Append(queue, EOF)

\* As PutNowait, but the item goes to the front of the queue.
PutFront(queue, item) == <<item>> \o queue

\* text_queue.put_nowait(item) on the unbounded asyncio.Queue: the item
\* goes to the back.
PutNowait(queue, item) == Append(queue, item)

\* The fragments accepted so far, over all queues.
RECURSIVE SumLen(_, _)
SumLen(f, S) ==
    IF S = {} THEN 0
    ELSE LET q == CHOOSE x \in S : TRUE IN Len(f[q]) + SumLen(f, S \ {q})

\* As AcceptsText, but end_signaled is not looked at.
AcceptsTextAlways(ended) == TRUE

\* add_tts_text: whether the text is put on text_queue.
AcceptsText(ended) == ~ended

\* add_tts_text. QueueFull cannot be raised: text_queue has no maxsize.
add_tts_text(queue_id, text) ==
    /\ IF ~Lookup(tts_queues, queue_id)
       THEN /\ last' = Response("add", queue_id, "not_found")
            /\ UNCHANGED <<text_queue, pushed>>
       ELSE IF ~AcceptsText(end_signaled[queue_id])
       THEN /\ last' = Response("add", queue_id, "already_ended")
            /\ UNCHANGED <<text_queue, pushed>>
       ELSE IF QueueFull(text_queue[queue_id])
       THEN /\ last' = Response("add", queue_id, "queue_full")
            /\ UNCHANGED <<text_queue, pushed>>
       ELSE /\ SumLen(pushed, QueueIds) < push_budget
            /\ text_queue' =
                   [text_queue EXCEPT ![queue_id] = PutNowait(@, text)]
            /\ pushed' = [pushed EXCEPT ![queue_id] = Append(@, text)]
            /\ last' = Response("add", queue_id, "queued")
    /\ UNCHANGED <<tts_model, tts_queues, allocated, uuid_pool, aside, status, end_signaled,
                   audio_chunks, chunks_delivered, task, cleanup, delivered,
                   cancelled>>

\* As FirstEnd, but end_signaled is not looked at.
FirstEndAlways(ended) == TRUE

\* end_tts_queue: whether the EOF marker is put on text_queue.
FirstEnd(ended) == ~ended

\* end_tts_queue
end_tts_queue(queue_id) ==
    /\ IF ~Lookup(tts_queues, queue_id)
       THEN /\ last' = Response("end", queue_id, "not_found")
            /\ UNCHANGED <<end_signaled, text_queue>>
       ELSE IF ~FirstEnd(end_signaled[queue_id])
       THEN /\ last' = Response("end", queue_id, "already_ended")
            /\ UNCHANGED <<end_signaled, text_queue>>
       ELSE /\ end_signaled' = [end_signaled EXCEPT ![queue_id] = TRUE]
            /\ text_queue' = [text_queue EXCEPT ![queue_id] =
                        IF QueueFull(@) THEN @ ELSE PutNowait(@, EOF)]
            /\ last' = Response("end", queue_id, "ended")
    /\ UNCHANGED <<tts_model, tts_queues, allocated, uuid_pool, aside, status, audio_chunks,
                   chunks_delivered, task, cleanup, pushed, delivered,
                   cancelled>>

\* state.task.done()
TaskDone(t) == t.pc \in {"done", "cancelled"}

\* As TaskCancel, but the task is left running.
TaskCancelIgnored(t) == t

\* state.task.cancel(): CancelledError will be thrown into the coroutine at
\* the await it is suspended in, or at its start if it never ran.
TaskCancel(t) == [t EXCEPT !.pc = "cancelling"]

\* As Popped, but the record stays in the registry.
PoppedNothing(registry, queue_id) == registry

\* As Popped, but every id is removed.
PoppedAll(registry, queue_id) == {}

\* tts_queues.pop(queue_id, None): the registry afterwards.
Popped(registry, queue_id) == registry \ {queue_id}

\* cancel_tts_queue
cancel_tts_queue(queue_id) ==
    /\ IF ~Lookup(tts_queues, queue_id)
       THEN /\ last' = Response("cancel", queue_id, "not_found")
            /\ UNCHANGED <<tts_queues, record_vars, cancelled>>
       ELSE /\ tts_queues' = Popped(tts_queues, queue_id)
            /\ task' = [task EXCEPT ![queue_id] =
                            IF ~TaskDone(@) THEN TaskCancel(@) ELSE @]
            /\ end_signaled' = [end_signaled EXCEPT ![queue_id] = TRUE]
            /\ text_queue' = [text_queue EXCEPT ![queue_id] =
                        IF QueueFull(@) THEN @ ELSE PutNowait(@, EOF)]
            /\ status' = [status EXCEPT ![queue_id] = "complete"]
            /\ cancelled' = cancelled \cup {queue_id}
            /\ last' = Response("cancel", queue_id, "cancelled")
            /\ UNCHANGED <<audio_chunks, chunks_delivered>>
    /\ UNCHANGED <<tts_model, allocated, uuid_pool, aside, cleanup, pushed, delivered>>

\* As ReportedStatus, but a failed queue is reported as active.
ReportedStatusHidden(st) == IF st = "error" THEN "active" ELSE st

\* "status": state.status in the response of poll_tts_audio.
ReportedStatus(st) == st

\* As PollDone, but one more chunk than there is must have been delivered.
PollDoneStrict(st, n_delivered, n_chunks) ==
    st = "complete" /\ n_delivered > n_chunks

\* As PollDone, but the status is not looked at.
PollDoneWhenDrained(st, n_delivered, n_chunks) == n_delivered >= n_chunks

\* poll_tts_audio: the value of done.
PollDone(st, n_delivered, n_chunks) ==
    st = "complete" /\ n_delivered >= n_chunks

\* As NewChunks, but the slice starts at 0.
NewChunksFromStart(chunks, n_delivered) == chunks

\* poll_tts_audio: new_chunks, the slice audio_chunks[chunks_delivered:].
NewChunks(chunks, n_delivered) == SubSeq(chunks, n_delivered + 1, Len(chunks))

\* As NewDelivered, but the cursor moves on by one chunk.
NewDeliveredByOne(chunks, n_delivered) == n_delivered + 1

\* poll_tts_audio: the value chunks_delivered takes.
NewDelivered(chunks, n_delivered) == Len(chunks)

\* As SchedulesCleanup, but every poll schedules a cleanup.
SchedulesCleanupAlways(done) == TRUE

\* poll_tts_audio: whether the cleanup() task is created.
SchedulesCleanup(done) == done

\* poll_tts_audio
poll_tts_audio(queue_id) ==
    /\ IF ~Lookup(tts_queues, queue_id)
       THEN /\ last' = Response("poll", queue_id, "not_found")
            /\ UNCHANGED <<chunks_delivered, cleanup, delivered>>
       ELSE LET new_chunks ==
                    NewChunks(audio_chunks[queue_id], chunks_delivered[queue_id])
                n == NewDelivered(audio_chunks[queue_id],
                                  chunks_delivered[queue_id])
                done == PollDone(status[queue_id], n,
                                 Len(audio_chunks[queue_id]))
            IN  /\ chunks_delivered' = [chunks_delivered EXCEPT ![queue_id] = n]
                /\ last' = [op |-> "poll", id |-> queue_id, result |-> "ok",
                            chunks |-> new_chunks, done |-> done,
                            status |-> ReportedStatus(status[queue_id])]
                /\ delivered' = [delivered EXCEPT ![queue_id] = @ \o new_chunks]
                /\ cleanup' = IF SchedulesCleanup(done)
                              THEN cleanup \cup {queue_id} ELSE cleanup
    /\ UNCHANGED <<tts_model, tts_queues, allocated, uuid_pool, aside, status, end_signaled,
                   text_queue, audio_chunks, task, pushed, cancelled>>

\* cleanup(), the task poll_tts_audio creates: after asyncio.sleep(60) it
\* pops the id. Further cleanup() tasks of the same id pop nothing.
cleanup_task(queue_id) ==
    /\ queue_id \in cleanup
    /\ cleanup' = cleanup \ {queue_id}
    /\ tts_queues' = Popped(tts_queues, queue_id)
    /\ UNCHANGED <<tts_model, allocated, uuid_pool, aside, record_vars, last, pushed, delivered,
                   cancelled>>

(* ---------------------------------------------------------------------- *)
(* The worker: _run_tts_queue and _process_tts_chunk                       *)
(* ---------------------------------------------------------------------- *)

\* _run_tts_queue, the while loop from its top to the next suspension:
\* items are taken from text_queue while there are any and none yields a
\* chunk to synthesize. complete = TRUE: status was set to "complete".
RECURSIVE RunLoop(_, _)
RunLoop(tq, w) ==
    IF tq = <<>>
    THEN [tq |-> tq, w |-> [w EXCEPT !.pc = "get"], complete |-> FALSE]
    ELSE IF Head(tq) = EOF
    THEN LET remaining == Flush(w.buffer)
         IN  IF remaining.chunks = <<>>
             THEN [tq |-> Tail(tq),
                   w |-> [w EXCEPT !.pc = "done", !.buffer = remaining.buffer],
                   complete |-> TRUE]
             ELSE [tq |-> Tail(tq),
                   w |-> [w EXCEPT !.pc = "synth", !.buffer = remaining.buffer,
                                   !.pending = remaining.chunks,
                                   !.at_eof = TRUE],
                   complete |-> FALSE]
    ELSE LET ready == AddText(w.buffer, Head(tq))
         IN  IF ready.chunks = <<>>
             THEN RunLoop(Tail(tq), [w EXCEPT !.buffer = ready.buffer])
             ELSE [tq |-> Tail(tq),
                   w |-> [w EXCEPT !.pc = "synth", !.buffer = ready.buffer,
                                   !.pending = ready.chunks],
                   complete |-> FALSE]

\* The effect of a run of the loop on the record of queue_id.
Resume(queue_id, w) ==
    LET r == RunLoop(text_queue[queue_id], w)
    IN  /\ text_queue' = [text_queue EXCEPT ![queue_id] = r.tq]
        /\ task' = [task EXCEPT ![queue_id] = r.w]
        /\ status' = IF r.complete
                     THEN [status EXCEPT ![queue_id] = "complete"]
                     ELSE status

\* _run_tts_queue from its first line: the task's first step.
worker_start(queue_id) ==
    /\ queue_id \in allocated
    /\ task[queue_id].pc = "new"
    /\ IF ~tts_model
       THEN /\ status' = [status EXCEPT ![queue_id] = "error"]
            /\ task' = [task EXCEPT ![queue_id].pc = "done"]
            /\ UNCHANGED text_queue
       ELSE Resume(queue_id, task[queue_id])
    /\ UNCHANGED <<tts_model, tts_queues, allocated, uuid_pool, aside, end_signaled,
                   audio_chunks, chunks_delivered, cleanup, last, pushed,
                   delivered, cancelled>>

\* await state.text_queue.get() returns: an item has arrived.
worker_get(queue_id) ==
    /\ task[queue_id].pc = "get"
    /\ text_queue[queue_id] # <<>>
    /\ Resume(queue_id, task[queue_id])
    /\ UNCHANGED <<tts_model, tts_queues, allocated, uuid_pool, aside, end_signaled,
                   audio_chunks, chunks_delivered, cleanup, last, pushed,
                   delivered, cancelled>>

\* As AppendChunk, but the new chunk takes the place of the latest one.
ReplaceLatest(chunks, chunk_data) ==
    IF chunks = <<>> THEN <<chunk_data>>
    ELSE SubSeq(chunks, 1, Len(chunks) - 1) \o <<chunk_data>>

\* state.audio_chunks.append(chunk_data)
AppendChunk(chunks, chunk_data) == Append(chunks, chunk_data)

\* As ChunkData, but char_end is the offset of the segment's last character.
ChunkDataInclusive(text, chunk_index, char_offset) ==
    [index |-> chunk_index, audio |-> text, char_start |-> char_offset,
     char_end |-> char_offset + Len(text) - 1]

\* _process_tts_chunk: the AudioChunkData built for text. The payload
\* stands for the audio synthesized from the text.
ChunkData(text, chunk_index, char_offset) ==
    [index |-> chunk_index, audio |-> text, char_start |-> char_offset,
     char_end |-> char_offset + Len(text)]

\* As Advance, but chunk_index is not incremented.
AdvanceSameIndex(w) ==
    [w EXCEPT !.char_offset = @ + Len(Head(w.pending)),
              !.pending = Tail(@)]

\* As Advance, but the chunks still to synthesize are dropped.
AdvanceAll(w) ==
    [w EXCEPT !.char_offset = @ + Len(Head(w.pending)),
              !.chunk_index = @ + 1,
              !.pending = <<>>]

\* The worker's locals after _process_tts_chunk returned for pending[1].
Advance(w) ==
    [w EXCEPT !.char_offset = @ + Len(Head(w.pending)),
              !.chunk_index = @ + 1,
              !.pending = Tail(@)]

\* run_in_executor returns: _process_tts_chunk appends the chunk, and
\* _run_tts_queue goes on to the next chunk, to "complete" or to the loop.
synth_return(queue_id) ==
    /\ task[queue_id].pc = "synth"
    /\ LET w == task[queue_id]
           w1 == Advance(w)
       IN  /\ audio_chunks' =
                  [audio_chunks EXCEPT ![queue_id] =
                       AppendChunk(@, ChunkData(Head(w.pending), w.chunk_index,
                                                w.char_offset))]
           /\ IF w1.pending # <<>>
              THEN /\ task' = [task EXCEPT ![queue_id] = w1]
                   /\ UNCHANGED <<status, text_queue>>
              ELSE IF w.at_eof
              THEN /\ task' = [task EXCEPT ![queue_id] =
                                   [w1 EXCEPT !.pc = "done"]]
                   /\ status' = [status EXCEPT ![queue_id] = "complete"]
                   /\ UNCHANGED text_queue
              ELSE Resume(queue_id, w1)
    /\ UNCHANGED <<tts_model, tts_queues, allocated, uuid_pool, aside, end_signaled,
                   chunks_delivered, cleanup, last, pushed, delivered,
                   cancelled>>

\* As AfterException, but the segments the same call returned after the
\* failed one are still synthesized.
AfterExceptionSkip(w) ==
    IF Len(w.pending) > 1 THEN [w EXCEPT !.pending = Tail(@)]
    ELSE [w EXCEPT !.pc = "done"]

\* As AfterException, but the loop goes on to the next item.
AfterExceptionContinue(w) == [w EXCEPT !.pc = "get", !.pending = <<>>]

\* The worker's locals once "except Exception" has handled a failure.
AfterException(w) == [w EXCEPT !.pc = "done"]

\* run_in_executor raises: the synthesis backend failed.
synth_raise(queue_id) ==
    /\ task[queue_id].pc = "synth"
    /\ status' = [status EXCEPT ![queue_id] = "error"]
    /\ task' = [task EXCEPT ![queue_id] = AfterException(@)]
    /\ UNCHANGED <<tts_model, tts_queues, allocated, uuid_pool, aside, end_signaled, text_queue,
                   audio_chunks, chunks_delivered, cleanup, last, pushed,
                   delivered, cancelled>>

\* CancelledError is thrown into the coroutine; "except Exception" does not
\* catch it (it is a BaseException), so the task ends cancelled.
worker_cancelled(queue_id) ==
    /\ task[queue_id].pc = "cancelling"
    /\ task' = [task EXCEPT ![queue_id].pc = "cancelled"]
    /\ UNCHANGED <<tts_model, tts_queues, allocated, uuid_pool, aside, status, end_signaled,
                   text_queue, audio_chunks, chunks_delivered, cleanup, last,
                   pushed, delivered, cancelled>>

(* ---------------------------------------------------------------------- *)
(* Specification                                                           *)
(* ---------------------------------------------------------------------- *)

Next ==
    \/ load_tts_model
    \/ \E q \in QueueIds : create_tts_queue(q)
    \/ \E q \in QueueIds, f \in Fragments : add_tts_text(q, f)
    \/ \E q \in QueueIds : end_tts_queue(q)
    \/ \E q \in QueueIds : cancel_tts_queue(q)
    \/ \E q \in QueueIds : poll_tts_audio(q)
    \/ \E q \in QueueIds : cleanup_task(q)
    \/ \E q \in QueueIds : worker_start(q)
    \/ \E q \in QueueIds : worker_get(q)
    \/ \E q \in QueueIds : synth_return(q)
    \/ \E q \in QueueIds : synth_raise(q)
    \/ \E q \in QueueIds : worker_cancelled(q)

Spec == Init /\ [][Next]_vars

\* A run in which two queues are created.
SpecTwo == InitTwo /\ [][Next]_vars

\* The worker of q is ready to run: its task was created and has not run
\* yet, or it waits in text_queue.get() and an item has arrived. This is
\* the enabling condition of worker_start(q) \/ worker_get(q).
Runnable(q) ==
    \/ q \in allocated /\ task[q].pc = "new"
    \/ task[q].pc = "get" /\ text_queue[q] # <<>>

\* The event loop runs every task that is ready: a worker whose item has
\* arrived or that was cancelled is resumed, a synthesis call handed to the
\* executor ends (by raising or by returning), and a cleanup() task wakes
\* from its sleep. Nothing obliges a client to call a tool. The first
\* conjunct is weak fairness of worker_start(q) \/ worker_get(q), with the
\* enabling condition written out.
LoopFair ==
    \A q \in QueueIds :
        /\ ([]<>(~Runnable(q))) \/ ([]<><<worker_start(q) \/ worker_get(q)>>_vars)
        /\ WF_vars(synth_raise(q) \/ synth_return(q))
        /\ WF_vars(worker_cancelled(q))
        /\ WF_vars(cleanup_task(q))

FairSpec == InitLive /\ [][Next]_vars /\ LoopFair

\* The same handlers and tasks, the texts pushed being whole sentences.
SentenceNext ==
    \/ load_tts_model
    \/ \E q \in QueueIds : create_tts_queue(q)
    \/ \E q \in QueueIds, f \in SentenceFragments : add_tts_text(q, f)
    \/ \E q \in QueueIds : end_tts_queue(q)
    \/ \E q \in QueueIds : cancel_tts_queue(q)
    \/ \E q \in QueueIds : poll_tts_audio(q)
    \/ \E q \in QueueIds : cleanup_task(q)
    \/ \E q \in QueueIds : worker_start(q)
    \/ \E q \in QueueIds : worker_get(q)
    \/ \E q \in QueueIds : synth_return(q)
    \/ \E q \in QueueIds : synth_raise(q)
    \/ \E q \in QueueIds : worker_cancelled(q)

\* A run in which one queue is created and sentences are pushed.
SentenceSpec == InitLive /\ [][SentenceNext]_vars

\* The widget's polling loop: a consumer calls poll_tts_audio again and
\* again for as long as a call tells it something.
PollFair == \A q \in QueueIds : WF_vars(poll_tts_audio(q))

LiveSpec == FairSpec /\ PollFair

(* ---------------------------------------------------------------------- *)
(* A StreamingTextChunker driven on its own                                *)
(* ---------------------------------------------------------------------- *)

\* No queue is ever created: only the chunker moves.
InitSeg == Start /\ uuid_pool = {} /\ push_budget = 0

\* What the chunker's methods leave alone.
queue_vars == <<tts_model, tts_queues, allocated, uuid_pool, status, end_signaled,
                text_queue, audio_chunks, chunks_delivered, task, cleanup,
                last, pushed, delivered, cancelled, push_budget>>

\* chunker.add_text(text)
seg_add_text(text) ==
    /\ ~chunker.flushed
    /\ Len(chunker.input) + Len(text) <= MaxInputLen
    /\ LET r == AddText(chunker.buffer, text)
       IN  chunker' = [buffer |-> r.buffer, flushed |-> FALSE,
                       input |-> chunker.input \o text,
                       emitted |-> chunker.emitted \o r.chunks,
                       before |-> chunker.buffer \o text,
                       returned |-> r.chunks, call |-> "add_text"]
    /\ UNCHANGED queue_vars

\* chunker.flush(), once, at the end of the stream
seg_flush ==
    /\ ~chunker.flushed
    /\ LET r == Flush(chunker.buffer)
       IN  chunker' = [buffer |-> r.buffer, flushed |-> TRUE,
                       input |-> chunker.input,
                       emitted |-> chunker.emitted \o r.chunks,
                       before |-> chunker.buffer,
                       returned |-> r.chunks, call |-> "flush"]
    /\ UNCHANGED queue_vars

SegNext ==
    \/ \E text \in SegFragments : seg_add_text(text)
    \/ seg_flush

SegSpec == InitSeg /\ [][SegNext]_vars

(* ---------------------------------------------------------------------- *)
(* Properties                                                              *)
(* ---------------------------------------------------------------------- *)

\* The index of every chunk of a list, in order.
Indices(chunks) == [i \in 1..Len(chunks) |-> chunks[i].index]

\* A terminal status.
Terminal(st) == st \in {"complete", "error"}

\* C1: on one queue with a single poller, the chunk indices the polls have
\* returned so far, in the order returned, are 0, 1, 2, ...: strictly
\* increasing, without a gap, none returned twice.
C1_DeliveryOrdering ==
    \A q \in QueueIds :
        \A i \in 1..Len(delivered[q]) : delivered[q][i].index = i - 1

\* C1 witness: a poll returned chunks after an earlier poll had returned
\* others, while more text was still to be synthesized.
C1_Witness ==
    \E q \in QueueIds :
        /\ last.op = "poll" /\ last.id = q /\ last.chunks # <<>>
        /\ Len(last.chunks) < Len(delivered[q])
        /\ status[q] = "active"

\* C2: on a queue that is never cancelled, what the polls returned is at
\* every moment the chunk list up to the cursor, each chunk once and in
\* order, and once a poll has returned done (the cleanup is scheduled or has
\* removed the record) it is the whole chunk list: no chunk the worker
\* appended is skipped, repeated, or lost to the removal of the record.
C2_ExactlyOnce ==
    \A q \in allocated \ cancelled :
        /\ delivered[q] = SubSeq(audio_chunks[q], 1, chunks_delivered[q])
        /\ (q \in cleanup \/ q \notin tts_queues)
               => delivered[q] = audio_chunks[q]

\* C2 witness: a queue polled to done, its record removed by the cleanup,
\* with chunks that were returned by more than one poll.
C2_Witness ==
    \E q \in allocated \ cancelled :
        /\ q \notin tts_queues
        /\ Len(audio_chunks[q]) >= 2
        /\ last.op = "poll" /\ last.id = q /\ last.done
        /\ Len(last.chunks) = 1

\* C3: every successful poll returns done = true exactly when, after its
\* cursor advance, the status is Complete or Error and every produced chunk
\* has been delivered.
C3_DoneIffTerminalAndDrained ==
    [][\A q \in QueueIds :
          (q \in tts_queues /\ poll_tts_audio(q))
              => (last'.done <=>
                     /\ Terminal(status'[q])
                     /\ chunks_delivered'[q] >= Len(audio_chunks'[q]))]_vars

\* C4: once the backend has raised on the second segment of a queue (the
\* worker failed with one chunk appended), a poll that reports status Error
\* has done = true and the first segment's chunk has been delivered.
C4_ErrorPollIsDone ==
    \A q \in QueueIds :
        (/\ status[q] = "error" /\ task[q].chunk_index = 1
         /\ last.op = "poll" /\ last.id = q /\ last.result = "ok"
         /\ last.status = "error")
            => (last.done /\ delivered[q] = audio_chunks[q]
                /\ Len(audio_chunks[q]) = 1)

\* C5: once the status of a queue is Complete or Error, add_tts_text on it
\* does not return queued and end_tts_queue does not return ended, and
\* neither puts anything on text_queue.
C5_TerminalRejectsText ==
    [][\A q \in allocated :
          Terminal(status[q]) =>
              /\ \A f \in Fragments :
                     add_tts_text(q, f) =>
                         (last'.result # "queued" /\ text_queue' = text_queue)
              /\ end_tts_queue(q) =>
                     (last'.result # "ended" /\ text_queue' = text_queue)]_vars

\* C6: once the status of a queue is Complete or Error, no step of any
\* kind makes its chunk list grow (or change at all).
C6_TerminalChunksFrozen ==
    [][\A q \in QueueIds :
          Terminal(status[q]) => audio_chunks'[q] = audio_chunks[q]]_vars

\* C6 witness: a queue in status Error, with a chunk produced before the
\* failure, on which text was pushed after the failure.
C6_Witness ==
    \E q \in QueueIds :
        /\ status[q] = "error" /\ audio_chunks[q] # <<>>
        /\ text_queue[q] # <<>> /\ last = Response("add", q, "queued")

\* C7: the status of a queue changes only from Active; Complete and Error
\* are final under every operation.
C7_StatusFinal ==
    [][\A q \in QueueIds :
          status'[q] # status[q] => status[q] = "active"]_vars

\* C8: a cancelled id is out of the registry from the cancel on, and every
\* response to a call on it, other than that of the cancel itself, is
\* NotFound.
C8_CancelRemoves ==
    \A q \in cancelled :
        /\ q \notin tts_queues
        /\ last.id = q =>
               \/ last.result = "not_found"
               \/ last = Response("cancel", q, "cancelled")

\* C8 witness: a poll answered NotFound for a cancelled queue that holds a
\* chunk no poll has returned.
C8_Witness ==
    \E q \in cancelled :
        /\ last = Response("poll", q, "not_found")
        /\ chunks_delivered[q] < Len(audio_chunks[q])

\* C9: from the moment cancel_tts_queue has returned, no step changes the
\* chunk list of the cancelled queue.
C9_NoChunkAfterCancel ==
    [][\A q \in cancelled : audio_chunks'[q] = audio_chunks[q]]_vars

\* C9 witness: the worker of a cancelled queue has ended cancelled with a
\* segment it was synthesizing when the cancel came.
C9_Witness ==
    \E q \in cancelled :
        task[q].pc = "cancelled" /\ task[q].pending # <<>>

\* C9 witness, the other case: the worker was suspended on text_queue with
\* text buffered in its chunker when the cancel came.
C9_WitnessOnGet ==
    \E q \in cancelled :
        /\ task[q].pc = "cancelled" /\ task[q].pending = <<>>
        /\ task[q].buffer # <<>>

\* C10: add_tts_text on a registered queue whose end was signalled returns
\* AlreadyEnded and changes nothing but the response.
C10_PushAfterEnd ==
    [][\A q \in QueueIds, f \in Fragments :
          (q \in tts_queues /\ end_signaled[q] /\ add_tts_text(q, f))
              => /\ last' = Response("add", q, "already_ended")
                 /\ UNCHANGED <<tts_queues, record_vars, cleanup, pushed>>]_vars

\* C10 witness: add_tts_text was answered AlreadyEnded on a registered
\* queue whose EOF marker is still on text_queue behind pushed text.
C10_Witness ==
    \E q \in tts_queues :
        /\ last = Response("add", q, "already_ended")
        /\ Len(text_queue[q]) >= 2

\* The EOF markers on a text_queue.
RECURSIVE CountEOF(_)
CountEOF(tq) ==
    IF tq = <<>> THEN 0
    ELSE (IF Head(tq) = EOF THEN 1 ELSE 0) + CountEOF(Tail(tq))

\* C11: end_tts_queue on a registered queue whose end was not signalled
\* returns ended, signals the end and puts one EOF marker on text_queue; on
\* one whose end was signalled it returns already-ended and changes nothing
\* but the response; so a registered queue never holds a second marker.
C11_EndIdempotent ==
    [][\A q \in QueueIds :
          (q \in tts_queues /\ end_tts_queue(q)) =>
              /\ IF end_signaled[q]
                 THEN /\ last' = Response("end", q, "already_ended")
                      /\ UNCHANGED <<tts_queues, record_vars, cleanup, pushed>>
                 ELSE /\ last' = Response("end", q, "ended")
                      /\ end_signaled'[q]
                      /\ text_queue'[q] = Append(text_queue[q], EOF)
              /\ CountEOF(text_queue'[q]) <= 1]_vars

\* C11 witness: a second end_tts_queue was answered already-ended while the
\* marker of the first is still on text_queue.
C11_Witness ==
    \E q \in tts_queues :
        /\ last = Response("end", q, "already_ended")
        /\ CountEOF(text_queue[q]) = 1

\* C12: a registered queue whose worker has set Complete or Error is
\* eventually out of the registry, whether or not it is polled.
C12_TerminalEventuallyRemoved ==
    \A q \in QueueIds :
        (q \in tts_queues /\ Terminal(status[q])) ~> (q \notin tts_queues)

\* p is the beginning of t.
IsPrefix(p, t) == Len(p) <= Len(t) /\ SubSeq(t, 1, Len(p)) = p

\* text is the segments in order, with nothing but blanks before, between
\* and after them.
RECURSIVE Reconstructs(_, _)
Reconstructs(text, segments) ==
    IF segments = <<>> THEN LStrip(text) = <<>>
    ELSE /\ IsPrefix(Head(segments), LStrip(text))
         /\ Reconstructs(SubSeq(LStrip(text), Len(Head(segments)) + 1,
                                Len(LStrip(text))),
                         Tail(segments))

\* C13: once add_text calls have been followed by flush(), the segments
\* emitted, in order, are the text that was added, except for blanks where
\* one segment ends and the next begins; every other character, blanks
\* inside a segment included, is there once and in its place.
C13_RoundTrip ==
    chunker.flushed => Reconstructs(chunker.input, chunker.emitted)

\* The sentence boundaries of tokens T: the positions of a sentence-ending
\* token that no sentence-ending token follows.
BoundarySet(T) ==
    { k \in 1..Len(T) : IsEos(T[k]) /\ (k = Len(T) \/ ~IsEos(T[k + 1])) }

\* A segment of n tokens cut from a buffer of tokens T is within the bound.
SegmentBound(T, n) ==
    IF \E b \in BoundarySet(T) : b <= MaxTokens THEN n <= MaxTokens
    ELSE IF BoundarySet(T) # {}
         THEN n = CHOOSE b \in BoundarySet(T) : \A c \in BoundarySet(T) : b <= c
    ELSE n = MaxTokens

\* The segments cut one after the other from a buffer of tokens T are each
\* within the bound.
RECURSIVE BoundOk(_, _)
BoundOk(T, segments) ==
    \/ segments = <<>>
    \/ /\ SegmentBound(T, Len(Tokenize(Head(segments))))
       /\ BoundOk(SubSeq(T, Len(Tokenize(Head(segments))) + 1, Len(T)),
                  Tail(segments))

\* The segments of the latest call that are not the final one of the stream.
NonFinal(c) ==
    IF c.call = "flush" THEN SubSeq(c.returned, 1, Len(c.returned) - 1)
    ELSE c.returned

C15_SentencePreference ==
    LET T == Tokenize(Strip(chunker.before))
    IN  ( /\ chunker.call = "add_text"
          /\ Len(T) \in BoundarySet(T)
          /\ Len(T) >= MinTokens /\ Len(T) <= MaxTokens )
        => /\ Len(chunker.returned) = 1
           /\ Tokenize(chunker.returned[1]) = T
           /\ chunker.buffer = <<>>

\* add_text emitted a sentence of exactly MaxTokens tokens that has an
\* earlier sentence boundary inside.
C15_Witness ==
    /\ chunker.call = "add_text"
    /\ Len(chunker.returned) = 1
    /\ Len(Tokenize(chunker.returned[1])) = MaxTokens
    /\ MaxTokens \in BoundarySet(Tokenize(chunker.returned[1]))
    /\ \E k \in BoundarySet(Tokenize(chunker.returned[1])) : k < MaxTokens

\* add_text emitted a sentence of fewer than MaxTokens tokens.
C15_WitnessEarly ==
    /\ chunker.call = "add_text"
    /\ Len(chunker.returned) = 1
    /\ Len(Tokenize(chunker.returned[1])) < MaxTokens
    /\ Len(Tokenize(chunker.returned[1]))
           \in BoundarySet(Tokenize(chunker.returned[1]))

\* The length of the text made of the fragments, in order.
RECURSIVE TextLen(_)
TextLen(fragments) ==
    IF fragments = <<>> THEN 0
    ELSE Len(Head(fragments)) + TextLen(Tail(fragments))

\* Each range starts where the one before it ended, the first one at 0.
Contiguous(chunks) ==
    \A i \in 1..Len(chunks) :
        chunks[i].char_start = IF i = 1 THEN 0 ELSE chunks[i - 1].char_end

\* Where the last range ends.
RangesEnd(chunks) ==
    IF chunks = <<>> THEN 0 ELSE chunks[Len(chunks)].char_end

\* C16: once text was pushed, the end was signalled and a poll has returned
\* done, the ranges [char_start, char_end) of the chunks delivered start
\* at 0, follow one another without gap or overlap, and end at the length
\* of the text pushed.
C16_RangesPartition ==
    \A q \in QueueIds :
        ( /\ last.op = "poll" /\ last.id = q /\ last.result = "ok"
          /\ last.done /\ end_signaled[q] )
        => /\ Contiguous(delivered[q])
           /\ RangesEnd(delivered[q]) = TextLen(pushed[q])

\* C17: create_tts_queue called while the model is not loaded answers that
\* the model is not loaded, registers nothing and creates no task; called
\* once it is loaded, it registers a new id whose record is active, has no
\* chunk, has delivered none, has no end signalled, and whose task is new.
C17_Create ==
    [][\A q \in QueueIds :
          create_tts_queue(q) =>
              IF ~tts_model
              THEN /\ last' = Response("create", "none", "model_not_loaded")
                   /\ UNCHANGED <<tts_queues, allocated, record_vars>>
              ELSE /\ q \notin tts_queues /\ q \in tts_queues'
                   /\ q \notin allocated /\ q \in allocated'
                   /\ last' = Response("create", q, "created")
                   /\ status'[q] = "active"
                   /\ audio_chunks'[q] = <<>>
                   /\ chunks_delivered'[q] = 0
                   /\ ~end_signaled'[q]
                   /\ text_queue'[q] = <<>>
                   /\ task'[q] = NewTask]_vars

\* A create was refused for want of a model, and nothing is registered.
C17_Witness ==
    /\ last = Response("create", "none", "model_not_loaded")
    /\ tts_queues = {} /\ allocated = {}

\* A create has just registered a queue.
C17_WitnessCreated ==
    \E q \in tts_queues :
        last = Response("create", q, "created") /\ task[q] = NewTask

\* A call of one of the four tools that take a queue id.
ToolCall(q) ==
    \/ \E text \in Fragments : add_tts_text(q, text)
    \/ end_tts_queue(q)
    \/ cancel_tts_queue(q)
    \/ poll_tts_audio(q)

\* C19: add_tts_text, end_tts_queue, cancel_tts_queue and poll_tts_audio
\* called with an id that is not in the registry answer that the queue is
\* not found, and change neither the registry nor any record nor the
\* cleanups pending.
C19_NotFound ==
    [][\A q \in QueueIds :
          (q \notin tts_queues /\ ToolCall(q)) =>
              /\ last'.id = q /\ last'.result = "not_found"
              /\ UNCHANGED <<tts_queues, allocated, record_vars, cleanup>>]_vars

\* A tool answered not found for an id that was cancelled.
C19_Witness ==
    /\ last.result = "not_found"
    /\ last.id \in cancelled

\* A tool answered not found for an id that cleanup() removed.
C19_WitnessRemoved ==
    /\ last.result = "not_found"
    /\ last.id \in allocated \ cancelled

\* A tool answered not found for an id that was never created.
C19_WitnessNeverCreated ==
    /\ last.result = "not_found"
    /\ last.id \in QueueIds \ allocated

\* Something is done on queue a: a tool is called with its id, its worker
\* takes a step, a synthesis for it fails, or its cleanup() removes it.
Operation(a) ==
    \/ ToolCall(a)
    \/ worker_start(a)
    \/ worker_get(a)
    \/ synth_return(a)
    \/ synth_raise(a)
    \/ worker_cancelled(a)
    \/ cleanup_task(a)

\* The record of queue b.
RecordOf(b) ==
    <<status[b], end_signaled[b], text_queue[b], audio_chunks[b],
      chunks_delivered[b], task[b]>>

\* C18: whatever is done on a queue leaves every other registered queue
\* registered, with its status, its text_queue, its chunks, its delivery
\* count and its task as they were.
C18_Isolation ==
    [][\A a \in QueueIds, b \in QueueIds :
          (a # b /\ b \in tts_queues /\ Operation(a)) =>
              /\ b \in tts_queues'
              /\ RecordOf(b)' = RecordOf(b)
              /\ (b \in cleanup') = (b \in cleanup)]_vars

\* A queue was cancelled while another one, registered, holds a chunk.
C18_Witness ==
    \E a \in QueueIds, b \in tts_queues :
        /\ a # b
        /\ last = Response("cancel", a, "cancelled")
        /\ audio_chunks[b] # <<>>

\* A poll of q has just answered done.
ObservedDone(q) ==
    last.op = "poll" /\ last.id = q /\ last.result = "ok" /\ last.done

\* C20: once end_tts_queue has signalled the end on a queue, if the queue
\* is not cancelled and no synthesis raises, the worker being scheduled and
\* the consumer polling on, the status becomes complete and a poll answers
\* done.
C20_NormalFlowLive ==
    \A q \in QueueIds :
        (last = Response("end", q, "ended"))
            ~> \/ status[q] = "complete" /\ ObservedDone(q)
               \/ q \in cancelled
               \/ status[q] = "error"

\* A queue that was given text and never cancelled is complete, and a poll
\* has answered done with its chunks delivered.
C20_Witness ==
    \E q \in QueueIds \ cancelled :
        /\ status[q] = "complete" /\ ObservedDone(q)
        /\ pushed[q] # <<>>
        /\ delivered[q] = audio_chunks[q] /\ delivered[q] # <<>>

\* The segments a chunker holding buffer emits for the fragments, added one
\* by one, and for the flush that follows them.
RECURSIVE SegmentsFrom(_, _)
SegmentsFrom(buffer, fragments) ==
    IF fragments = <<>> THEN Flush(buffer).chunks
    ELSE AddText(buffer, Head(fragments)).chunks
             \o SegmentsFrom(AddText(buffer, Head(fragments)).buffer,
                             Tail(fragments))

\* The texts the chunks were synthesized from.
Texts(chunks) == [i \in 1..Len(chunks) |-> chunks[i].audio]

\* C21: a queue that was not cancelled has status complete only once its
\* text_queue is empty, its worker has returned with nothing left to
\* synthesize, and audio_chunks holds a chunk for every segment of the text
\* pushed, flush included; and a poll that answers done with status
\* complete has delivered all of them.
C21_CompleteAfterAll ==
    \A q \in QueueIds :
        /\ (q \notin cancelled /\ status[q] = "complete")
               => /\ text_queue[q] = <<>>
                  /\ task[q].pc = "done" /\ task[q].pending = <<>>
                  /\ Texts(audio_chunks[q]) = SegmentsFrom(<<>>, pushed[q])
        /\ (ObservedDone(q) /\ last.status = "complete")
               => Texts(delivered[q]) = SegmentsFrom(<<>>, pushed[q])

\* A poll answered done for a queue whose pushed text gave three segments
\* or more.
C21_Witness ==
    \E q \in QueueIds \ cancelled :
        /\ ObservedDone(q) /\ last.status = "complete"
        /\ Len(delivered[q]) >= 3

\* The fragments among the items of a text_queue.
FragmentsIn(tq) == SelectSeq(tq, LAMBDA item : item # EOF)

\* s is the end of t.
IsSuffix(s, t) ==
    Len(s) <= Len(t) /\ SubSeq(t, Len(t) - Len(s) + 1, Len(t)) = s

\* C22: the fragments waiting in text_queue are the latest ones pushed, in
\* the order they were pushed, and the chunks of audio_chunks are, in
\* order and without a gap, the first segments the chunker emits for the
\* fragments in the order they were pushed.
C22_EmissionOrder ==
    \A q \in QueueIds :
        /\ IsSuffix(FragmentsIn(text_queue[q]), pushed[q])
        /\ IsPrefix(Texts(audio_chunks[q]), SegmentsFrom(<<>>, pushed[q]))

\* The chunks of a queue come from two fragments pushed one after the other.
C22_Witness ==
    \E q \in QueueIds :
        /\ Len(pushed[q]) >= 2
        /\ Len(audio_chunks[q]) >= 2
        /\ Texts(audio_chunks[q])
               # SegmentsFrom(<<>>, <<pushed[q][1]>>)
        /\ ~IsPrefix(Texts(audio_chunks[q]),
                     SegmentsFrom(<<>>, <<pushed[q][2], pushed[q][1]>>))

\* C23: when a synthesis raises, the worker sets status error, appends no
\* chunk, takes no item and ends; and a worker that has ended appends no
\* chunk and takes no item from text_queue any more, so that the chunks
\* appended before the failure stay and none follows them.
C23_FailureStopsWorker ==
    [][\A q \in QueueIds :
          /\ synth_raise(q) =>
                 /\ status'[q] = "error"
                 /\ task'[q].pc = "done"
                 /\ audio_chunks'[q] = audio_chunks[q]
                 /\ text_queue'[q] = text_queue[q]
          /\ task[q].pc = "done" =>
                 /\ task'[q] = task[q]
                 /\ audio_chunks'[q] = audio_chunks[q]
                 /\ IsPrefix(text_queue[q], text_queue'[q])]_vars

\* A synthesis failed after a chunk was appended, with two segments of the
\* same call not yet synthesized and an item waiting in text_queue.
C23_Witness ==
    \E q \in QueueIds :
        /\ status[q] = "error"
        /\ task[q].pc = "done"
        /\ audio_chunks[q] # <<>>
        /\ Len(task[q].pending) >= 2
        /\ text_queue[q] # <<>>

\* C24: on a registered queue whose worker has failed, add_tts_text,
\* end_tts_queue and cancel_tts_queue answer as on any other queue, the
\* status stays error for as long as the queue is registered, and every
\* poll_tts_audio answers with status error.
C24_FailureSurfacesOnPoll ==
    [][\A q \in QueueIds :
          (q \in tts_queues /\ status[q] = "error") =>
              /\ (\E text \in Fragments : add_tts_text(q, text)) =>
                     last'.result \in {"queued", "already_ended"}
              /\ end_tts_queue(q) =>
                     last'.result \in {"ended", "already_ended"}
              /\ cancel_tts_queue(q) => last'.result = "cancelled"
              /\ poll_tts_audio(q) =>
                     last'.result = "ok" /\ last'.status = "error"
              /\ q \in tts_queues' => status'[q] = "error"]_vars

\* A poll reported status error on a queue that has delivered a chunk and
\* has a fragment waiting in text_queue.
C24_Witness ==
    \E q \in tts_queues :
        /\ last.op = "poll" /\ last.id = q /\ last.status = "error"
        /\ delivered[q] # <<>>
        /\ FragmentsIn(text_queue[q]) # <<>>

\* The positions right after a sentence-ending token of T, whatever follows.
AfterEosSet(T) == { k \in 1..Len(T) : IsEos(T[k]) }

\* The split index the rule gives for tokens T and boundaries B: the
\* greatest boundary at or below MaxTokens, else the smallest boundary,
\* else MaxTokens, or the end of a forced buffer shorter than that.
SplitChoice(T, B) ==
    IF \E b \in B : b <= MaxTokens
    THEN CHOOSE b \in B : b <= MaxTokens /\ (\A c \in B : c <= MaxTokens => c <= b)
    ELSE IF B # {} THEN CHOOSE b \in B : \A c \in B : b <= c
    ELSE IF Len(T) >= MaxTokens THEN MaxTokens
    ELSE Len(T)

\* The segments cut one after the other from tokens T are cut where the
\* rule says, each time the buffer has MaxTokens tokens or the emission is
\* forced; runs = TRUE: a boundary follows a whole run of sentence-ending
\* tokens; runs = FALSE: a boundary follows any sentence-ending token.
RECURSIVE SplitOk(_, _, _, _)
SplitOk(T, segments, forced, runs) ==
    IF T # <<>> /\ (forced \/ Len(T) >= MaxTokens)
    THEN /\ segments # <<>>
         /\ Len(Tokenize(Head(segments)))
                = SplitChoice(T, IF runs THEN BoundarySet(T) ELSE AfterEosSet(T))
         /\ SplitOk(SubSeq(T, Len(Tokenize(Head(segments))) + 1, Len(T)),
                    Tail(segments), FALSE, runs)
    ELSE TRUE

\* C25: when the buffer has MaxTokens tokens or flush forces the emission,
\* the segment ends at the greatest sentence boundary at or below
\* MaxTokens, else at the first boundary, else at MaxTokens (at the end of
\* a forced shorter buffer), a boundary being a position right after a
\* sentence-ending token.
C25_SplitChoice ==
    chunker.call # "none" =>
        SplitOk(Tokenize(Strip(chunker.before)), chunker.returned,
                chunker.call = "flush", FALSE)

\* C25, amended: the same, a boundary being a position right after a
\* sentence-ending token that no sentence-ending token follows.
C25_SplitChoiceRuns ==
    chunker.call # "none" =>
        SplitOk(Tokenize(Strip(chunker.before)), chunker.returned,
                chunker.call = "flush", TRUE)

\* add_text cut a buffer that had two boundaries at or below MaxTokens and
\* tokens past the second one.
C25_Witness ==
    /\ chunker.call = "add_text"
    /\ chunker.returned # <<>>
    /\ LET T == Tokenize(Strip(chunker.before))
       IN  /\ Len(Tokenize(chunker.returned[1])) < Len(T)
           /\ \E b \in BoundarySet(T) :
                  b < Len(Tokenize(chunker.returned[1]))

\* Forced, flush cut a buffer of fewer than MaxTokens tokens at a boundary
\* inside it.
C25_WitnessForced ==
    /\ chunker.call = "flush"
    /\ Len(chunker.returned) >= 2
    /\ Len(Tokenize(Strip(chunker.before))) < MaxTokens

\* C26: when the buffer add_text has appended to has fewer than MinTokens
\* tokens, add_text returns no segment and the buffer keeps all of it,
\* also when it ends with a sentence-ending token.
C26_BelowMinKept ==
    (chunker.call = "add_text" /\ Len(Tokenize(chunker.before)) < MinTokens)
        => /\ chunker.returned = <<>>
           /\ chunker.buffer = chunker.before

\* add_text kept a buffer of fewer than MinTokens tokens that ends with a
\* sentence-ending token.
C26_Witness ==
    /\ chunker.call = "add_text"
    /\ chunker.returned = <<>>
    /\ Len(Tokenize(chunker.before)) < MinTokens
    /\ Len(Tokenize(chunker.before)) \in BoundarySet(Tokenize(chunker.before))

\* The segments laid end to end.
RECURSIVE Concat(_)
Concat(segments) ==
    IF segments = <<>> THEN <<>> ELSE Head(segments) \o Concat(Tail(segments))

\* The characters of a text that are not blanks.
NonBlank(t) == SelectSeq(t, LAMBDA c : c # " ")

\* C27: flush() returns all the text the buffer held, as final segments,
\* however few its tokens, and leaves the buffer empty.
C27_FlushClears ==
    chunker.call = "flush"
        => /\ NonBlank(Concat(chunker.returned)) = NonBlank(chunker.before)
           /\ chunker.buffer = <<>>

\* C28: when add_text returns, the buffer has fewer than MaxTokens tokens
\* and is not a sentence of MinTokens tokens or more: nothing is left that
\* the call could have emitted.
C28_Drained ==
    chunker.call = "add_text"
        => LET T == Tokenize(chunker.buffer)
           IN  /\ Len(T) < MaxTokens
               /\ ~(Len(T) >= MinTokens /\ Len(T) \in BoundarySet(T))

\* One add_text call returned two segments.
C28_Witness ==
    chunker.call = "add_text" /\ Len(chunker.returned) >= 2

\* C29: when cleanup() removes a queue from the registry, every chunk of
\* the queue has been delivered by a poll.
C29_RemovalAfterDelivery ==
    [][\A q \in QueueIds :
          (q \in tts_queues /\ cleanup_task(q)) =>
              /\ q \notin tts_queues'
              /\ chunks_delivered[q] = Len(audio_chunks[q])
              /\ delivered[q] = audio_chunks[q]]_vars

\* cleanup() has removed a queue that had chunks.
C29_Witness ==
    \E q \in allocated \ (tts_queues \cup cancelled) :
        audio_chunks[q] # <<>>

\* C30: in audio_chunks, the chunk at position i, counted from 0, has
\* index i.
C30_IndexIsPosition ==
    \A q \in QueueIds :
        \A i \in 1..Len(audio_chunks[q]) : audio_chunks[q][i].index = i - 1

\* A queue has three chunks, from more than one step of the worker's loop.
C30_Witness ==
    \E q \in QueueIds :
        /\ Len(audio_chunks[q]) >= 3
        /\ Len(pushed[q]) >= 2

\* C31: across every step, the audio_chunks of a queue before the step is
\* the beginning of its audio_chunks after the step: a chunk, once
\* appended, is not changed, removed or moved, by a poll and a cancel no
\* more than by the worker.
C31_AppendOnly ==
    [][\A q \in QueueIds : IsPrefix(audio_chunks[q], audio_chunks'[q])]_vars

\* A queue that holds two chunks was polled and then cancelled.
C31_Witness ==
    \E q \in cancelled :
        /\ Len(audio_chunks[q]) >= 2
        /\ delivered[q] # <<>>

\* The sum of the lengths of the first n segments.
RECURSIVE LenOfFirst(_, _)
LenOfFirst(segments, n) ==
    IF n = 0 THEN 0 ELSE LenOfFirst(segments, n - 1) + Len(segments[n])

\* C32: the char_start of each chunk is the sum of the lengths of the
\* segments synthesized before it on the queue, and its char_end is
\* char_start plus the length of its own segment, the segments being those
\* the chunker emits for the text pushed; so the first chunk starts at 0
\* and every other one where the one before it ends.
C32_RunningOffset ==
    \A q \in QueueIds :
        \A i \in 1..Len(audio_chunks[q]) :
            LET segments == SegmentsFrom(<<>>, pushed[q])
            IN  /\ audio_chunks[q][i].char_start = LenOfFirst(segments, i - 1)
                /\ audio_chunks[q][i].char_end
                       = audio_chunks[q][i].char_start + Len(segments[i])
                /\ audio_chunks[q][i].char_start
                       = IF i = 1 THEN 0 ELSE audio_chunks[q][i - 1].char_end

\* A queue has three chunks, the third starting past the second.
C32_Witness ==
    \E q \in QueueIds :
        /\ Len(audio_chunks[q]) >= 3
        /\ audio_chunks[q][3].char_start > audio_chunks[q][2].char_start
        /\ audio_chunks[q][2].char_start > 0

\* C33: add_tts_text on a registered queue whose end was not signalled
\* answers queued and puts the fragment at the back of text_queue, however
\* many items wait there; no call is answered that the queue is full.
C33_NeverFull ==
    [][/\ last'.result # "queue_full"
       /\ \A q \in QueueIds, text \in Fragments :
              (q \in tts_queues /\ ~end_signaled[q] /\ add_tts_text(q, text))
                  => /\ last' = Response("add", q, "queued")
                     /\ text_queue'[q] = Append(text_queue[q], text)]_vars

\* A fragment was accepted behind two that were still waiting.
C33_Witness ==
    \E q \in tts_queues :
        /\ last = Response("add", q, "queued")
        /\ Len(text_queue[q]) >= 3

\* The text is one sentence: its only sentence boundary is its end.
OneSentence(text) ==
    BoundarySet(Tokenize(text)) = {Len(Tokenize(text))}

\* Scenario A has run on q: a sentence of fewer than MinTokens tokens was
\* pushed, then a sentence of MinTokens tokens or more, the end was
\* signalled and a poll has answered done.
ScenarioA(q) ==
    /\ ObservedDone(q)
    /\ Len(pushed[q]) = 2
    /\ OneSentence(pushed[q][1]) /\ OneSentence(pushed[q][2])
    /\ Len(Tokenize(pushed[q][1])) < MinTokens
    /\ Len(Tokenize(pushed[q][2])) >= MinTokens

\* C34: after scenario A the polls have delivered two chunks or more: the
\* short sentence and the long one are not in one chunk.
C34_ScenarioA ==
    \A q \in QueueIds : ScenarioA(q) => Len(delivered[q]) >= 2

\* C34, amended: after scenario A the polls have delivered one chunk that
\* holds both sentences when the two together have MaxTokens tokens or
\* fewer, and two chunks or more when they have more.
C34_ScenarioAMerged ==
    \A q \in QueueIds :
        ScenarioA(q) =>
            IF Len(Tokenize(pushed[q][1] \o pushed[q][2])) <= MaxTokens
            THEN /\ Len(delivered[q]) = 1
                 /\ Tokenize(delivered[q][1].audio)
                        = Tokenize(pushed[q][1] \o pushed[q][2])
            ELSE Len(delivered[q]) >= 2

\* Scenario A has run and one chunk was delivered.
C34_Witness ==
    \E q \in QueueIds : ScenarioA(q) /\ Len(delivered[q]) = 1

\* Scenario A has run and two chunks were delivered.
C34_WitnessTwo ==
    \E q \in QueueIds : ScenarioA(q) /\ Len(delivered[q]) = 2

\* C35: a registered queue whose status is complete has end_signaled set:
\* the worker completes only on the EOF marker, which end_tts_queue and
\* cancel_tts_queue put after setting end_signaled.
C35_CompleteIsEnded ==
    \A q \in QueueIds :
        (q \in tts_queues /\ status[q] = "complete") => end_signaled[q]

\* A registered queue got text, was ended and is complete.
C35_Witness ==
    \E q \in tts_queues :
        status[q] = "complete" /\ end_signaled[q] /\ pushed[q] # <<>>

\* The number of tokens _try_extract_chunk sees in a buffer.
BufferedTokens(buffer) == Len(Tokenize(Strip(buffer)))

\* Every iteration of the loop of _extract_ready_chunks on the buffer that
\* extracts a chunk extracts one token or more and leaves fewer tokens in
\* the buffer than it found; first = the list of chunks is still empty.
RECURSIVE EachExtractionShrinks(_, _, _)
EachExtractionShrinks(buffer, force_emit, first) ==
    LET r == TryExtractChunk(buffer, force_emit /\ first)
    IN  IF ~r.found THEN TRUE
        ELSE /\ Len(Tokenize(r.chunk)) >= 1
             /\ BufferedTokens(r.buffer) < BufferedTokens(buffer)
             /\ EachExtractionShrinks(r.buffer, force_emit, FALSE)

\* C36: the loop of _extract_ready_chunks ends: on the buffer add_text or
\* flush started from, each extraction took one token or more and left
\* fewer tokens than it found, so the call returned no more chunks than
\* the buffer had tokens.
C36_LoopTerminates ==
    chunker.call \in {"add_text", "flush"} =>
        /\ EachExtractionShrinks(chunker.before, chunker.call = "flush", TRUE)
        /\ Len(chunker.returned) <= BufferedTokens(chunker.before)

\* An add_text whose loop extracted two chunks, one after the other.
C36_Witness ==
    /\ chunker.call = "add_text"
    /\ Len(chunker.returned) >= 2

\* A flush whose loop extracted a chunk by force and then another.
C36_WitnessFlush ==
    /\ chunker.call = "flush"
    /\ Len(chunker.returned) >= 2

\* The delivery cursor of q lies between 0 and the number of chunks.
CursorInRange(q) ==
    0 <= chunks_delivered[q] /\ chunks_delivered[q] <= Len(audio_chunks[q])

\* C37: chunks_delivered lies between 0 and the number of chunks of its
\* queue in every state, no step makes it smaller, and right after a poll
\* that found the queue it is the number of chunks.
C37_Cursor ==
    /\ \A q \in QueueIds : CursorInRange(q)
    /\ [][\A q \in QueueIds :
              /\ CursorInRange(q)'
              /\ chunks_delivered'[q] >= chunks_delivered[q]
              /\ (q \in tts_queues /\ poll_tts_audio(q))
                     => chunks_delivered'[q] = Len(audio_chunks'[q])]_vars

\* A poll moved the cursor from one chunk to the two chunks made so far,
\* and a third chunk has been made since.
C37_Witness ==
    \E q \in tts_queues :
        /\ last.op = "poll" /\ last.id = q /\ last.result = "ok"
        /\ Len(last.chunks) = 1
        /\ chunks_delivered[q] = 2
        /\ Len(audio_chunks[q]) = 3

====
